---- MODULE Spec2Model ----
(***************************************************************************)
(* A model of openvdb/math/Tuple.h: the fixed-size homogeneous tuple       *)
(* Tuple<SIZE, T>, its constructors, indexed access, str(), write()/read(),*)
(* the free operators < and >, Abs() and the stream output operator.       *)
(*                                                                         *)
(* A tuple's backing array T mm[SIZE] is a function 0..SIZE-1 -> value.    *)
(* Two instantiations of T are modelled: "int", a signed two's complement  *)
(* integer of Bits bits (and "long", one bit wider, as the other type of a *)
(* converting construction), and "float", whose values are some numbers    *)
(* and NaN.  The object representation of an int is sizeof(T) = Bits       *)
(* storage units of one bit each, least significant first.                 *)
(***************************************************************************)
EXTENDS Integers, Sequences, FiniteSets, TLC

\* ---------------------------------------------------------------- bounds
\* Largest SIZE instantiated.
MaxSize == 3
\* Width of the element type int, in bits.
Bits == 2
\* Largest finite number among the sample elements of compared tuples.
MaxElem == 1
\* Most tuples written to one stream.
MaxWrites == 2

\* ------------------------------------------------------ the element types
Pow2(n) == IF n = 0 THEN 1 ELSE IF n = 1 THEN 2 ELSE IF n = 2 THEN 4
           ELSE IF n = 3 THEN 8 ELSE IF n = 4 THEN 16 ELSE IF n = 5 THEN 32
           ELSE 64

\* Width in bits of an integer element type.
Width(ty) == IF ty = "long" THEN Bits + 1 ELSE Bits

MinOf(ty) == 0 - Pow2(Width(ty) - 1)
MaxOf(ty) == Pow2(Width(ty) - 1) - 1
MinInt == MinOf("int")
MaxInt == MaxOf("int")

\* A float that is not a number: a value outside every integer type's range.
NaN == Pow2(Bits + 2)

IsNaN(x) == x = NaN

Values(ty) == IF ty = "float" THEN (MinInt .. MaxInt) \cup {NaN}
              ELSE MinOf(ty) .. MaxOf(ty)

\* boost::is_integral<T>::value
IsInteger(ty) == ty \in {"int", "long"}

Indices(n) == 0 .. (n - 1)
Tuples(n, vals) == [Indices(n) -> vals]
NoTuple == [i \in {} |-> 0]
Sizes == 1 .. MaxSize

\* The implicit conversion of a value v of type from to type to, as the
\* assignment mm[i] = src[i] performs it: a narrowing integer conversion
\* wraps modulo 2^width, a widening one keeps the value.
Convert(from, to, v) ==
    IF IsInteger(to) /\ IsInteger(from)
    THEN ((v - MinOf(to)) % Pow2(Width(to))) + MinOf(to)
    ELSE v

VARIABLES
    SIZE,     \* the template parameter SIZE of the tuples a and b
    T,        \* the template parameter T of the tuples a and b
    a,        \* a.mm
    b,        \* b.mm
    src,      \* the source of a converting construction: [size, type, mm]
    op,       \* the operation performed last: [name, i]
    last,     \* history: the value most recently assigned to each a[i]
    ret,      \* the value the last operation returned (an element, a tuple)
    retBool,  \* the value the last comparison returned
    text,     \* the characters the last str() returned
    ostr,     \* the characters put on the output stream by operator<<
    ss,       \* the byte stream: [buf, gpos, fail, eof, cut]
    sent,     \* history: the tuples written to ss, in order
    recv,     \* history: the tuples read whole from ss, in order
    pre       \* history: the operands as they were before the last operation

vars == <<SIZE, T, a, b, src, op, last, ret, retBool, text, ostr, ss, sent, recv, pre>>

\* A position of a tuple that was never assigned.
Unset == NaN + 1

NoOp == [name |-> "init", i |-> 0]
NoStream == [buf |-> <<>>, gpos |-> 0, fail |-> FALSE, eof |-> FALSE, cut |-> FALSE]
NoSrc == [size |-> 0, type |-> "int", mm |-> NoTuple]

\* ------------------------------------------------- construction, indexing
\* Tuple(Tuple const &src): mm[i] = src.mm[i] for every i < SIZE.
CopyCtor_skipLast(srcmm) ==
    [i \in DOMAIN srcmm |-> IF i = Cardinality(DOMAIN srcmm) - 1 /\ i > 0
                            THEN srcmm[0] ELSE srcmm[i]]

CopyCtor(srcmm) == [i \in DOMAIN srcmm |-> srcmm[i]]

\* T operator[](int i) const
Index(mm, i) == mm[i]

\* T& operator[](int i), assigned through: mm[i] = x.
Store_shift(mm, i, x) ==
    [mm EXCEPT ![(i + 1) % Cardinality(DOMAIN mm)] = x]

Store(mm, i, x) == [mm EXCEPT ![i] = x]

\* The values the driver assigns: the extremes of int.
AssignVals == {MinInt, MaxInt}

\* Tuple<SIZE,int> a;  the default constructor leaves mm unspecified.
Init ==
    /\ SIZE \in Sizes
    /\ T = "int"
    /\ a \in Tuples(SIZE, AssignVals)
    /\ b = NoTuple
    /\ src = NoSrc
    /\ op = NoOp
    /\ last = [i \in Indices(SIZE) |-> Unset]
    /\ ret = 0
    /\ retBool = FALSE
    /\ text = <<>>
    /\ ostr = <<>>
    /\ ss = NoStream
    /\ sent = <<>>
    /\ recv = <<>>
    /\ pre = NoTuple

\* a[i] = x
SetA ==
    \E i \in Indices(SIZE), x \in AssignVals :
        /\ a' = Store(a, i, x)
        /\ last' = [last EXCEPT ![i] = x]
        /\ op' = [name |-> "setA", i |-> i]
        /\ UNCHANGED <<SIZE, T, b, src, ret, retBool, text, ostr, ss, sent, recv, pre>>

\* x = a[i]
GetA ==
    \E i \in Indices(SIZE) :
        /\ ret' = Index(a, i)
        /\ op' = [name |-> "getA", i |-> i]
        /\ UNCHANGED <<SIZE, T, a, b, src, last, retBool, text, ostr, ss, sent, recv, pre>>

\* Tuple<SIZE,int> b(a);
CopyB ==
    /\ b' = CopyCtor(a)
    /\ op' = [name |-> "copy", i |-> 0]
    /\ UNCHANGED <<SIZE, T, a, src, last, ret, retBool, text, ostr, ss, sent, recv, pre>>

\* b[i] = x, once b is constructed
SetB ==
    /\ b # NoTuple
    /\ \E i \in Indices(SIZE), x \in AssignVals :
        /\ b' = Store(b, i, x)
        /\ op' = [name |-> "setB", i |-> i]
    /\ UNCHANGED <<SIZE, T, a, src, last, ret, retBool, text, ostr, ss, sent, recv, pre>>

Next == SetA \/ GetA \/ CopyB \/ SetB

Spec == Init /\ [][Next]_vars

\* C6: after a[i] = x, a[i] reads x and every other element is unchanged;
\* after any sequence of assignments a read of a[i] returns the value most
\* recently assigned to position i.
C6_IndexedStore ==
    /\ [][op'.name = "setA" =>
            /\ a'[op'.i] = last'[op'.i]
            /\ \A j \in Indices(SIZE) \ {op'.i} : a'[j] = a[j]]_vars
    /\ [](\A i \in Indices(SIZE) : last[i] # Unset => a[i] = last[i])
    /\ []((op.name = "getA" /\ last[op.i] # Unset) => ret = last[op.i])

C6_Witness ==
    /\ SIZE = 3
    /\ op.name = "getA" /\ op.i = 1
    /\ last[1] = MinInt /\ last[0] = MaxInt /\ last[2] = Unset
    /\ a[2] = MaxInt
    /\ ret = MinInt

\* C7: a copy b of a has b[i] = a[i] for all i right after construction, and
\* later assignments to b leave a unchanged, as assignments to a leave b.
C7_CopyIndependent ==
    /\ [](op.name = "copy" => \A i \in Indices(SIZE) : b[i] = a[i])
    /\ [][op'.name = "setB" => a' = a]_vars
    /\ [][op'.name = "setA" => b' = b]_vars

C7_Witness ==
    /\ SIZE = 3
    /\ op.name = "setB"
    /\ b # NoTuple
    /\ \A i \in Indices(SIZE) : b[i] # a[i]

\* ------------------------------------------------ converting construction
\* template <int src_size, typename src_valtype>
\* explicit Tuple(Tuple<src_size, src_valtype> const &src), building a
\* Tuple<n, ty>: the first copyEnd elements are converted copies, the rest 0.
ConvCtor_noPad(n, ty, s) ==
    LET copyEnd == IF n < s.size THEN n ELSE s.size
    IN  [i \in Indices(n) |->
            IF i < copyEnd THEN Convert(s.type, ty, s.mm[i])
            ELSE Convert(s.type, ty, s.mm[copyEnd - 1])]

ConvCtor(n, ty, s) ==
    LET copyEnd == IF n < s.size THEN n ELSE s.size
    IN  [i \in Indices(n) |->
            IF i < copyEnd THEN Convert(s.type, ty, s.mm[i])
            ELSE Convert("int", ty, 0)]

IntTypes == {"int", "long"}

\* The elements of the source tuples: the extremes of the type and the
\* numbers around zero.
ConvVals(ty) == {MinOf(ty), 0 - 1, 0, 1, MaxOf(ty)}

\* Tuple<M,U> src = ...;  the destination a is not constructed yet.
InitConv ==
    /\ SIZE \in Sizes
    /\ T \in IntTypes \cup {"float"}
    /\ \E m \in Sizes, u \in IntTypes :
         \E mm \in Tuples(m, ConvVals(u)) :
            src = [size |-> m, type |-> u, mm |-> mm]
    /\ a = NoTuple
    /\ b = NoTuple
    /\ op = NoOp
    /\ last = NoTuple
    /\ ret = 0
    /\ retBool = FALSE
    /\ text = <<>>
    /\ ostr = <<>>
    /\ ss = NoStream
    /\ sent = <<>>
    /\ recv = <<>>
    /\ pre = NoTuple

\* Tuple<SIZE,T> a(src);
Construct ==
    /\ op.name = "init"
    /\ a' = ConvCtor(SIZE, T, src)
    /\ pre' = src.mm
    /\ op' = [name |-> "conv", i |-> 0]
    /\ UNCHANGED <<SIZE, T, b, src, last, ret, retBool, text, ostr, ss, sent, recv>>

\* x = a[i], on the constructed tuple
GetDest ==
    /\ op.name # "init"
    /\ \E i \in Indices(SIZE) :
        /\ ret' = Index(a, i)
        /\ op' = [name |-> "getA", i |-> i]
    /\ UNCHANGED <<SIZE, T, a, b, src, last, retBool, text, ostr, ss, sent, recv, pre>>

NextConv == Construct \/ GetDest

SpecConv == InitConv /\ [][NextConv]_vars

Min(x, y) == IF x < y THEN x ELSE y

\* C1: a size-N tuple built from a size-M source has dest[i] = convert(src[i])
\* for i < min(N,M) and dest[i] = 0 for M <= i < N; the source elements from
\* N on influence no destination element, and the source is unchanged.
C1_ConvertingCtor ==
    op.name # "init" =>
        /\ DOMAIN a = Indices(SIZE)
        /\ \A i \in Indices(Min(SIZE, src.size)) :
              a[i] = Convert(src.type, T, src.mm[i])
        /\ \A i \in Indices(SIZE) : i >= src.size => a[i] = 0
        /\ \A j \in Indices(src.size), v \in ConvVals(src.type) :
              j >= SIZE =>
                 ConvCtor(SIZE, T, [src EXCEPT !.mm[j] = v]) = a
        /\ src.mm = pre
        /\ (op.name = "getA" => ret = a[op.i])

\* A narrowing 3-from-2 and type-narrowing case read back: long MaxOf wraps.
C1_Witness ==
    /\ op.name = "getA" /\ op.i = 2
    /\ SIZE = 3 /\ src.size = 2
    /\ T = "int" /\ src.type = "long"
    /\ src.mm[0] = MaxOf("long") /\ a[0] = 0 - 1
    /\ src.mm[1] = MinOf("long") /\ a[1] = 0
    /\ ret = 0

\* ------------------------------------------------------------- ordering
\* The built-in t0[i] < t1[i] and t0[i] > t1[i] on elements: false when
\* either operand is NaN.
ElemLess(x, y) == ~IsNaN(x) /\ ~IsNaN(y) /\ x < y
ElemGreater(x, y) == ~IsNaN(x) /\ ~IsNaN(y) /\ x > y

\* isExactlyEqual(a, b) of Math.h: a == b.
isExactlyEqual(x, y) == ~IsNaN(x) /\ ~IsNaN(y) /\ x = y

\* operator<: for (i = 0; i < SIZE-1; ++i)
\*                if (!isExactlyEqual(t0[i], t1[i])) return t0[i] < t1[i];
\*            return t0[SIZE-1] < t1[SIZE-1];
RECURSIVE LessLoop(_, _, _)
LessLoop(t0, t1, i) ==
    LET n == Cardinality(DOMAIN t0)
    IN  IF i < n - 1
        THEN IF ~isExactlyEqual(t0[i], t1[i]) THEN ElemLess(t0[i], t1[i])
             ELSE LessLoop(t0, t1, i + 1)
        ELSE ElemLess(t0[n - 1], t1[n - 1])

\* A loop that starts at position 1.
LessThan_skipFirst(t0, t1) == LessLoop(t0, t1, Min(1, Cardinality(DOMAIN t0) - 1))

\* A last comparison with <= for <.
LessThan_orEqual(t0, t1) ==
    LET n == Cardinality(DOMAIN t0)
    IN  LessLoop(t0, t1, 0) \/ \A i \in Indices(n) : isExactlyEqual(t0[i], t1[i])

LessThan(t0, t1) == LessLoop(t0, t1, 0)

\* operator>: the same loop with > for <.
RECURSIVE GreaterLoop(_, _, _)
GreaterLoop(t0, t1, i) ==
    LET n == Cardinality(DOMAIN t0)
    IN  IF i < n - 1
        THEN IF ~isExactlyEqual(t0[i], t1[i]) THEN ElemGreater(t0[i], t1[i])
             ELSE GreaterLoop(t0, t1, i + 1)
        ELSE ElemGreater(t0[n - 1], t1[n - 1])

\* A loop that decides on the last element alone.
GreaterThan_lastOnly(t0, t1) ==
    GreaterLoop(t0, t1, Cardinality(DOMAIN t0) - 1)

GreaterThan(t0, t1) == GreaterLoop(t0, t1, 0)

\* The elements of the tuples compared.
CmpVals(ty) == IF ty = "float" THEN (0 .. MaxElem) \cup {NaN} ELSE 0 .. MaxElem

\* Tuple<SIZE,T> a = ..., b = ...;
InitCmp ==
    /\ SIZE \in Sizes
    /\ T \in {"int", "float"}
    /\ a \in Tuples(SIZE, CmpVals(T))
    /\ b \in Tuples(SIZE, CmpVals(T))
    /\ src = NoSrc
    /\ op = NoOp
    /\ last = NoTuple
    /\ ret = 0
    /\ retBool = FALSE
    /\ text = <<>>
    /\ ostr = <<>>
    /\ ss = NoStream
    /\ sent = <<>>
    /\ recv = <<>>
    /\ pre = NoTuple

\* a < b
Less ==
    /\ retBool' = LessThan(a, b)
    /\ op' = [name |-> "lt", i |-> 0]
    /\ UNCHANGED <<SIZE, T, a, b, src, last, ret, text, ostr, ss, sent, recv, pre>>

\* a > b
Greater ==
    /\ retBool' = GreaterThan(a, b)
    /\ op' = [name |-> "gt", i |-> 0]
    /\ UNCHANGED <<SIZE, T, a, b, src, last, ret, text, ostr, ss, sent, recv, pre>>

NextCmp == Less \/ Greater

SpecCmp == InitCmp /\ [][NextCmp]_vars

NoNaN(t) == \A i \in DOMAIN t : ~IsNaN(t[i])
Differ(t0, t1) == \E i \in DOMAIN t0 : ~isExactlyEqual(t0[i], t1[i])
\* The positions 0..N-2 at which two tuples are not exactly equal.
Unequal(t0, t1) ==
    {k \in Indices(Cardinality(DOMAIN t0) - 1) : ~isExactlyEqual(t0[k], t1[k])}
First(S) == CHOOSE k \in S : \A j \in S : k <= j

\* C2: a < b returns a[k] < b[k] at the smallest k in 0..N-2 where a[k] and
\* b[k] are not exactly equal, and a[N-1] < b[N-1] when there is none; a < a
\* is false.
C2_LessLexicographic ==
    op.name = "lt" =>
        /\ retBool = IF Unequal(a, b) # {}
                     THEN ElemLess(a[First(Unequal(a, b))], b[First(Unequal(a, b))])
                     ELSE ElemLess(a[SIZE - 1], b[SIZE - 1])
        /\ (a = b => ~retBool)

C2_Witness ==
    /\ op.name = "lt" /\ SIZE = 3 /\ T = "int"
    /\ a[0] = b[0] /\ a[1] < b[1] /\ a[2] > b[2]
    /\ retBool

\* C3 as stated: < is asymmetric, transitive, and total on tuples that differ.
C3_StrictTotalOrder_Orig ==
    op.name = "lt" =>
        /\ ~(retBool /\ LessThan(b, a))
        /\ \A c \in Tuples(SIZE, CmpVals(T)) :
              (retBool /\ LessThan(b, c)) => LessThan(a, c)
        /\ (Differ(a, b) => (retBool \/ LessThan(b, a)))

\* C3, amended: < is asymmetric and transitive on all tuples, and total on
\* the tuples that differ and hold no NaN.
C3_StrictOrder ==
    op.name = "lt" =>
        /\ ~(retBool /\ LessThan(b, a))
        /\ \A c \in Tuples(SIZE, CmpVals(T)) :
              (retBool /\ LessThan(b, c)) => LessThan(a, c)
        /\ ((Differ(a, b) /\ NoNaN(a) /\ NoNaN(b)) => (retBool \/ LessThan(b, a)))

C3_Witness ==
    /\ op.name = "lt" /\ SIZE = 3 /\ T = "float"
    /\ NoNaN(a) /\ NoNaN(b)
    /\ a[0] = b[0] /\ a[1] = b[1] /\ a[2] > b[2]
    /\ ~retBool /\ LessThan(b, a)

\* C10: on tuples over a totally ordered element set, a > b iff b < a; a > b
\* and a < b are never both true, and both are false exactly when a and b
\* are element-wise equal.
C10_GreaterConverse ==
    (op.name = "gt" /\ NoNaN(a) /\ NoNaN(b)) =>
        /\ retBool = LessThan(b, a)
        /\ ~(retBool /\ LessThan(a, b))
        /\ ((~retBool /\ ~LessThan(a, b)) <=> (\A i \in Indices(SIZE) : a[i] = b[i]))

C10_Witness ==
    /\ op.name = "gt" /\ SIZE = 3
    /\ a[0] = b[0] /\ a[1] > b[1] /\ a[2] < b[2]
    /\ retBool

\* -------------------------------------------------------- absolute value
Magnitude(v) == IF v < 0 THEN 0 - v ELSE v

\* ::abs(int).  The magnitude of the minimum of the type is not a value of
\* the type: the behaviour is undefined and any int may come out.
abs_identity(v) == {v}

abs(v) == IF v = MinInt THEN Values("int") ELSE {Magnitude(v)}

\* ::fabs(double)
fabs(v) == IF IsNaN(v) THEN NaN ELSE Magnitude(v)

\* for (size_t i = 0; i < SIZE; ++i) result[i] = ::abs(t[i]);  the results
\* the loop can leave, from the results before position i.
RECURSIVE absLoop(_, _, _)
absLoop(t, i, results) ==
    IF i < Cardinality(DOMAIN t)
    THEN absLoop(t, i + 1, {[r EXCEPT ![i] = v] : r \in results, v \in abs(t[i])})
    ELSE results

\* TupleAbs<SIZE, T, IsInteger>::absVal(t): the tuples it can return.
absVal(ty, t) ==
    IF IsInteger(ty)
    THEN absLoop(t, 0, {[i \in DOMAIN t |-> 0]})
    ELSE {[i \in DOMAIN t |-> fabs(t[i])]}

\* Abs(t)
Abs(ty, t) == absVal(ty, t)

\* Tuple<SIZE,T> a = ...;
InitAbs ==
    /\ SIZE \in Sizes
    /\ T \in {"int", "float"}
    /\ a \in Tuples(SIZE, Values(T))
    /\ b = NoTuple
    /\ src = NoSrc
    /\ op = NoOp
    /\ last = NoTuple
    /\ ret = 0
    /\ retBool = FALSE
    /\ text = <<>>
    /\ ostr = <<>>
    /\ ss = NoStream
    /\ sent = <<>>
    /\ recv = <<>>
    /\ pre = a

\* b = Abs(a)
AbsA ==
    /\ op.name = "init"
    /\ \E r \in Abs(T, a) : b' = r
    /\ pre' = a
    /\ op' = [name |-> "abs", i |-> 0]
    /\ UNCHANGED <<SIZE, T, a, src, last, ret, retBool, text, ostr, ss, sent, recv>>

\* x = b[i], on the result
GetB ==
    /\ op.name # "init"
    /\ \E i \in Indices(SIZE) :
        /\ ret' = Index(b, i)
        /\ op' = [name |-> "getB", i |-> i]
    /\ UNCHANGED <<SIZE, T, a, b, src, last, retBool, text, ostr, ss, sent, recv, pre>>

NextAbs == AbsA \/ GetB

SpecAbs == InitAbs /\ [][NextAbs]_vars

\* C4 as stated: Abs(t)[i] = |t[i]| at every position, for every tuple over
\* all values of a signed integer element type; t is unchanged.
C4_Abs_Orig ==
    (op.name # "init" /\ T = "int") =>
        /\ DOMAIN b = Indices(SIZE)
        /\ \A i \in Indices(SIZE) : b[i] = Magnitude(a[i])
        /\ a = pre

\* C4, amended: Abs(t)[i] = |t[i]| at every position whose element is not
\* the minimum value of the signed integer element type; t is unchanged.
C4_Abs ==
    (op.name # "init" /\ T = "int") =>
        /\ DOMAIN b = Indices(SIZE)
        /\ \A i \in Indices(SIZE) : a[i] # MinInt => b[i] = Magnitude(a[i])
        /\ \A i \in Indices(SIZE) : b[i] \in Values("int")
        /\ a = pre
        /\ (op.name = "getB" => ret = b[op.i])

C4_Witness ==
    /\ op.name = "getB" /\ op.i = 0 /\ T = "int" /\ SIZE = 3
    /\ a[0] = 0 - 1 /\ a[1] = MaxInt /\ a[2] = MinInt
    /\ b[0] = 1 /\ b[1] = MaxInt
    /\ ret = 1

\* ------------------------------------------------------------ formatting
DigitChars == <<"0", "1", "2", "3", "4", "5", "6", "7", "8", "9">>

RECURSIVE Digits(_)
Digits(n) == IF n < 10 THEN <<DigitChars[n + 1]>>
             ELSE Digits(n \div 10) \o <<DigitChars[(n % 10) + 1]>>

\* buffer << mm[j]: the characters of one element.
Format(v) == IF IsNaN(v) THEN <<"n", "a", "n">>
             ELSE IF v < 0 THEN <<"-">> \o Digits(0 - v)
             ELSE Digits(v)

\* for (unsigned j(0); j < SIZE; j++) { if (j) buffer << ", "; buffer << mm[j]; }
RECURSIVE StrLoop(_, _, _, _)
StrLoop(mm, j, buffer, sepFrom) ==
    IF j < Cardinality(DOMAIN mm)
    THEN StrLoop(mm, j + 1,
                 (IF j >= sepFrom THEN buffer \o <<",", " ">> ELSE buffer)
                     \o Format(mm[j]),
                 sepFrom)
    ELSE buffer

\* A separator before every element, the first included.
str_leadingSep(mm) == StrLoop(mm, 0, <<"[">>, 0) \o <<"]">>

\* std::string Tuple::str() const
str(mm) == StrLoop(mm, 0, <<"[">>, 1) \o <<"]">>

\* std::ostream& operator<<(std::ostream& ostr, const Tuple& classname):
\* the stream's contents after ostr << classname.str().
StreamOut(out, mm) == out \o str(mm)

\* Tuple<SIZE,T> a = ...;  std::ostringstream ostr;
InitStr ==
    /\ SIZE \in Sizes
    /\ T \in {"int", "float"}
    /\ a \in Tuples(SIZE, Values(T))
    /\ b = NoTuple
    /\ src = NoSrc
    /\ op = NoOp
    /\ last = NoTuple
    /\ ret = 0
    /\ retBool = FALSE
    /\ text = <<>>
    /\ ostr = <<>>
    /\ ss = NoStream
    /\ sent = <<>>
    /\ recv = <<>>
    /\ pre = NoTuple

\* text = a.str()
StrA ==
    /\ text' = str(a)
    /\ op' = [name |-> "str", i |-> 0]
    /\ UNCHANGED <<SIZE, T, a, b, src, last, ret, retBool, ostr, ss, sent, recv, pre>>

\* ostr << a, at most MaxWrites times
OutA ==
    /\ Len(sent) < MaxWrites
    /\ ostr' = StreamOut(ostr, a)
    /\ sent' = Append(sent, a)
    /\ op' = [name |-> "out", i |-> 0]
    /\ UNCHANGED <<SIZE, T, a, b, src, last, ret, retBool, text, ss, recv, pre>>

NextStr == StrA \/ OutA

SpecStr == InitStr /\ [][NextStr]_vars

\* The text between the brackets cut at each ", ": the fields, in order.
RECURSIVE Fields(_, _)
Fields(s, cur) ==
    IF s = <<>> THEN <<cur>>
    ELSE IF Len(s) >= 2 /\ s[1] = "," /\ s[2] = " "
         THEN <<cur>> \o Fields(SubSeq(s, 3, Len(s)), <<>>)
         ELSE Fields(Tail(s), Append(cur, Head(s)))

Inner(s) == SubSeq(s, 2, Len(s) - 1)

\* C8: str() yields '[', the N elements in index order with exactly N-1
\* separators ", " placed only between consecutive elements, and ']'; the
\* stream output operator emits exactly the text of str().
C8_StrFormat ==
    /\ [](op.name = "str" =>
            /\ Len(text) >= 2 /\ Head(text) = "[" /\ text[Len(text)] = "]"
            /\ Cardinality({k \in 1 .. Len(text) : text[k] = ","}) = SIZE - 1
            /\ Cardinality({k \in 1 .. Len(text) : text[k] = " "}) = SIZE - 1
            /\ Fields(Inner(text), <<>>) = [k \in 1 .. SIZE |-> Format(a[k - 1])])
    /\ [][(op'.name = "out" /\ text # <<>>) => ostr' = ostr \o text]_vars

C8_Witness ==
    /\ op.name = "out" /\ SIZE = 3 /\ T = "int"
    /\ text = <<"[", "1", ",", " ", "-", "2", ",", " ", "0", "]">>
    /\ ostr = text \o text

\* -------------------------------------------------- binary serialization
\* sizeof(T) for T = int, in storage units ("bytes") of one bit.
sizeofT == Bits

\* reinterpret_cast<const char*>(&x): the bytes of one int, two's
\* complement, least significant first.
ObjRep(v) ==
    LET u == (v + Pow2(Bits)) % Pow2(Bits)
    IN  [k \in 1 .. sizeofT |-> (u \div Pow2(k - 1)) % 2]

RECURSIVE Unsigned(_)
Unsigned(bytes) ==
    IF bytes = <<>> THEN 0 ELSE Head(bytes) + 2 * Unsigned(Tail(bytes))

\* The int whose bytes are given.
FromRep(bytes) ==
    LET u == Unsigned(bytes)
    IN  IF u >= Pow2(Bits - 1) THEN u - Pow2(Bits) ELSE u

\* reinterpret_cast<const char*>(&mm): the sizeof(T)*SIZE bytes of the array.
RECURSIVE BytesFrom(_, _)
BytesFrom(mm, i) ==
    IF i < Cardinality(DOMAIN mm) THEN ObjRep(mm[i]) \o BytesFrom(mm, i + 1)
    ELSE <<>>

Bytes(mm) == BytesFrom(mm, 0)

\* The array of n ints whose bytes are given.
FromBytes(bytes, n) ==
    [i \in Indices(n) |-> FromRep(SubSeq(bytes, i * sizeofT + 1, (i + 1) * sizeofT))]

Good(s) == ~s.fail /\ ~s.eof

\* std::ostream::write(p, n) on a stream whose put position is its end: the
\* bytes are appended, unless the stream is not good, which sets failbit.
ostream_write(s, bytes) ==
    IF Good(s) THEN [s EXCEPT !.buf = s.buf \o bytes]
    ELSE [s EXCEPT !.fail = TRUE]

\* std::istream::read(p, n): the bytes extracted and the stream after.  The
\* bytes left are extracted up to n of them; fewer than n sets failbit and
\* eofbit; a stream that is not good yields nothing and sets failbit.
istream_read(s, n) ==
    LET avail == Len(s.buf) - s.gpos
        k == IF n < avail THEN n ELSE avail
    IN  IF Good(s)
        THEN [got |-> SubSeq(s.buf, s.gpos + 1, s.gpos + k),
              s |-> [s EXCEPT !.gpos = s.gpos + k,
                              !.fail = k < n, !.eof = k < n]]
        ELSE [got |-> <<>>, s |-> [s EXCEPT !.fail = TRUE]]

\* One element too few is written.
write_short(mm, s) ==
    ostream_write(s, SubSeq(Bytes(mm), 1, sizeofT * (Cardinality(DOMAIN mm) - 1)))

\* void Tuple::write(std::ostream& os) const: the stream after
\* os.write(reinterpret_cast<const char*>(&mm), sizeof(T)*SIZE).
write(mm, s) == ostream_write(s, Bytes(mm))

\* The array is zeroed before the bytes are stored.
read_zeroFirst(mm, s) ==
    LET n == sizeofT * Cardinality(DOMAIN mm)
        r == istream_read(s, n)
        k == Len(r.got)
    IN  [mm |-> FromBytes(r.got \o [j \in 1 .. (n - k) |-> 0], Cardinality(DOMAIN mm)),
         s |-> r.s]

\* void Tuple::read(std::istream& is): the array and the stream after
\* is.read(reinterpret_cast<char*>(&mm), sizeof(T)*SIZE).  The bytes
\* extracted overwrite the leading bytes of the array.
read(mm, s) ==
    LET n == sizeofT * Cardinality(DOMAIN mm)
        r == istream_read(s, n)
        k == Len(r.got)
    IN  [mm |-> FromBytes(r.got \o SubSeq(Bytes(mm), k + 1, n), Cardinality(DOMAIN mm)),
         s |-> r.s]

\* The elements of the tuples written: the extremes of int and -1.
IOVals == {MinInt, 0 - 1, MaxInt}

\* What the tuple read into holds at first, in every element: 0 or -1.
FillVals == {0, 0 - 1}

\* Tuple<SIZE,int> a = ..., b = {v, v, ...};  std::stringstream ss;
InitIO ==
    /\ SIZE \in Sizes
    /\ T = "int"
    /\ a \in Tuples(SIZE, IOVals)
    /\ \E v \in FillVals : b = [i \in Indices(SIZE) |-> v]
    /\ src = NoSrc
    /\ op = NoOp
    /\ last = NoTuple
    /\ ret = 0
    /\ retBool = FALSE
    /\ text = <<>>
    /\ ostr = <<>>
    /\ ss = NoStream
    /\ sent = <<>>
    /\ recv = <<>>
    /\ pre = NoTuple

\* a.write(ss), at most MaxWrites tuples in all
WriteA ==
    /\ Len(sent) < MaxWrites
    /\ ~ss.cut
    /\ ss' = write(a, ss)
    /\ sent' = IF Good(ss) THEN Append(sent, a) ELSE sent
    /\ op' = [name |-> "write", i |-> 0]
    /\ UNCHANGED <<SIZE, T, a, b, src, last, ret, retBool, text, ostr, recv, pre>>

\* b.write(ss), at most MaxWrites tuples in all
WriteB ==
    /\ Len(sent) < MaxWrites
    /\ ~ss.cut
    /\ ss' = write(b, ss)
    /\ sent' = IF Good(ss) THEN Append(sent, b) ELSE sent
    /\ op' = [name |-> "write", i |-> 0]
    /\ UNCHANGED <<SIZE, T, a, b, src, last, ret, retBool, text, ostr, recv, pre>>

\* b.read(ss); op.i is the number of bytes extracted
ReadB ==
    LET r == read(b, ss)
        k == r.s.gpos - ss.gpos
    IN  /\ b' = r.mm
        /\ ss' = r.s
        /\ pre' = b
        /\ recv' = IF k = sizeofT * SIZE THEN Append(recv, r.mm) ELSE recv
        /\ op' = [name |-> "read", i |-> k]
        /\ UNCHANGED <<SIZE, T, a, src, last, ret, retBool, text, ostr, sent>>

\* The writing is over and the source is cut short: the last j bytes, part
\* of the last tuple written and not yet read, are lost.
Truncate ==
    /\ Good(ss) /\ ~ss.cut
    /\ Len(ss.buf) > ss.gpos
    /\ \E j \in 1 .. (sizeofT * SIZE - 1) :
          ss' = [ss EXCEPT !.buf = SubSeq(ss.buf, 1, Len(ss.buf) - j), !.cut = TRUE]
    /\ op' = [name |-> "truncate", i |-> 0]
    /\ UNCHANGED <<SIZE, T, a, b, src, last, ret, retBool, text, ostr, sent, recv, pre>>

NextIO == WriteA \/ WriteB \/ ReadB \/ Truncate

SpecIO == InitIO /\ [][NextIO]_vars

\* C5: written tuples read back into b (whatever b held) give b[i] = a[i];
\* write leaves its tuple unchanged and emits exactly N * sizeof(T) bytes, a
\* whole read consumes exactly as many, so the k-th tuple read whole is the
\* k-th tuple written.
C5_RoundTrip ==
    /\ [](\A k \in 1 .. Len(recv) : k <= Len(sent) /\ recv[k] = sent[k])
    /\ []((op.name = "read" /\ op.i = sizeofT * SIZE) =>
            /\ b = sent[Len(recv)]
            /\ ss.gpos = Len(recv) * sizeofT * SIZE)
    /\ [][(op'.name = "write" /\ Good(ss)) =>
            /\ Len(ss'.buf) = Len(ss.buf) + sizeofT * SIZE
            /\ SubSeq(ss'.buf, 1, Len(ss.buf)) = ss.buf
            /\ a' = a /\ b' = b]_vars
    /\ [][(op'.name = "read" /\ Good(ss) /\ Len(ss.buf) - ss.gpos >= sizeofT * SIZE) =>
            /\ Len(recv') = Len(recv) + 1
            /\ ss'.gpos = ss.gpos + sizeofT * SIZE
            /\ Good(ss')
            /\ a' = a]_vars

\* Two different tuples written, both read back in order.
C5_Witness ==
    /\ SIZE = 3 /\ op.name = "read"
    /\ Len(recv) = 2 /\ Len(sent) = 2
    /\ sent[1] # sent[2]
    /\ sent[1][0] = MinInt /\ sent[1][1] = 0 - 1 /\ sent[1][2] = MaxInt
    /\ b = sent[2]
    /\ pre = sent[1]
    /\ Good(ss)

\* C9: a read from a source holding fewer than N * sizeof(T) bytes overwrites
\* only the leading bytes that were available and leaves the rest of the
\* array as it was; nothing is reported by the tuple, and the short read
\* shows only in the stream's state.
C9_ShortRead ==
    [][(op'.name = "read" /\ Len(ss.buf) - ss.gpos < sizeofT * SIZE) =>
          LET avail == Len(ss.buf) - ss.gpos
          IN  /\ Bytes(b') = SubSeq(ss.buf, ss.gpos + 1, Len(ss.buf))
                               \o SubSeq(Bytes(b), avail + 1, sizeofT * SIZE)
              /\ ss'.fail
              /\ ss'.buf = ss.buf
              /\ a' = a /\ ret' = ret /\ recv' = recv /\ sent' = sent]_vars

\* A read that stopped inside the second element of three.
C9_Witness ==
    /\ SIZE = 3 /\ op.name = "read" /\ op.i = sizeofT + 1
    /\ ss.fail /\ ss.eof
    /\ b[0] # pre[0] /\ b[1] # pre[1] /\ b[2] = pre[2]
    /\ Len(sent) = 1 /\ b[1] # sent[1][1]

====
